---- MODULE Spec2Model ----
(***************************************************************************)
(* Model of wasm-python-sandbox-rs: the execution orchestrator             *)
(* (sandbox/executor.rs), the resource limiter (sandbox/limits.rs), the    *)
(* I/O capture (sandbox/io.rs) and the module cache (sandbox/cache.rs).    *)
(*                                                                         *)
(* Time is a discrete clock `now`.  Timers (ticker interval, select's      *)
(* sleep) fire at their due instant before the clock advances; the         *)
(* blocking task may start late (blocking pool), and a guest that ends on  *)
(* its own ends exactly `dur` clock units after its entry point is called. *)
(***************************************************************************)
EXTENDS Integers, Sequences, FiniteSets, TLC

(* ------------------------------ bounds --------------------------------- *)
MaxTime == 3          \* the clock runs over 0..MaxTime
MaxOut == 1           \* bytes a guest writes to stdout and stderr together
MaxGrow == 2          \* largest memory size (bytes) a guest asks for
MaxGcCalls == 2        \* get_or_compile calls made on one ModuleCache
MaxSetting == 2       \* largest argument passed to a setter of the builder
MaxPieces == 4        \* pieces of text a stderr text is put together from

Sandboxes == {1}
Calls == {1, 2}
SharedEngineId == 0
Engines == {SharedEngineId} \cup Sandboxes

None == -1            \* Option::None of an Option<u64> / Option<i32>
IsSome(x) == x # None

(* --------------------------- configuration ----------------------------- *)
\* SandboxConfig values the model draws from (timeout, tick interval in
\* clock units; memory in bytes).
Timeouts == 1..MaxTime
Intervals == {1, 2}
MaxMemories == {1}
MaxFuels == {None, 1}
Stdins == {None, 7}
Inputs == {None, 8}

Configs ==
    [timeout : Timeouts, epoch_tick_interval : Intervals,
     max_memory : MaxMemories, max_fuel : MaxFuels, stdin : Stdins]

\* Configurations and arguments that leave stdin alone.
ConfigsNoStdin == {cfg \in Configs : cfg.stdin = None /\ cfg.timeout # 2}
NoInputs == {None}

\* Bytes a guest can write: 65 is valid UTF-8 ('A'), 255 never is.
Bytes == {65, 255}
ReplacementChar == 65533

\* Guest programs: what the code given to execute would do when left alone.
\*   finish: returns from _start after dur clock units
\*   exit:   calls proc_exit(n) after dur clock units
\*   trap:   fails with some other trap or host error after dur clock units
\*   loop:   never ends on its own
\* need is the number of instructions (fuel units) the guest executes.
Durations == {1, 2}
Programs ==
    [kind : {"finish"}, dur : Durations]
        \cup [kind : {"exit", "trap"}, dur : {1}]
        \cup [kind : {"loop"}, dur : {0}]
Need(p) == p.dur

ExitCodes == {0, 1}

(* ------------------------- resource limiter ---------------------------- *)
MaxTableElements == 10000

\* A limiter handed over with the readings of an earlier use.
SandboxLimiterNew_Used(max_memory) ==
    [max_memory |-> max_memory, current_memory |-> max_memory,
     peak_memory |-> max_memory, max_table_elements |-> MaxTableElements,
     limit_exceeded |-> FALSE]

SandboxLimiterNew(max_memory) ==
    [max_memory |-> max_memory, current_memory |-> 0, peak_memory |-> 0,
     max_table_elements |-> MaxTableElements, limit_exceeded |-> FALSE]

\* memory_growing without the ceiling test: every request is granted.
memory_growing_NoCeiling(l, desired) ==
    [lim |-> [l EXCEPT !.current_memory = desired,
                       !.peak_memory = IF desired > l.peak_memory
                                       THEN desired ELSE l.peak_memory],
     allowed |-> TRUE]

\* memory_growing with the ceiling itself refused (>= for >).
memory_growing_Strict(l, desired) ==
    IF desired >= l.max_memory
    THEN [lim |-> [l EXCEPT !.limit_exceeded = TRUE], allowed |-> FALSE]
    ELSE [lim |-> [l EXCEPT !.current_memory = desired,
                            !.peak_memory = IF desired > l.peak_memory
                                            THEN desired ELSE l.peak_memory],
          allowed |-> TRUE]

\* memory_growing: the limiter after the request, and whether it was allowed.
memory_growing(l, desired) ==
    IF desired > l.max_memory
    THEN [lim |-> [l EXCEPT !.limit_exceeded = TRUE], allowed |-> FALSE]
    ELSE [lim |-> [l EXCEPT !.current_memory = desired,
                            !.peak_memory = IF desired > l.peak_memory
                                            THEN desired ELSE l.peak_memory],
          allowed |-> TRUE]

\* table_growing that assigns the flag from the present request alone.
table_growing_Assign(l, desired) ==
    [lim |-> [l EXCEPT !.limit_exceeded = desired > l.max_table_elements],
     allowed |-> ~(desired > l.max_table_elements)]

\* table_growing that books a granted request as memory_growing does.
table_growing_AsMemory(l, desired) ==
    IF desired > l.max_table_elements
    THEN [lim |-> [l EXCEPT !.limit_exceeded = TRUE], allowed |-> FALSE]
    ELSE [lim |-> [l EXCEPT !.current_memory = desired,
                            !.peak_memory = IF desired > l.peak_memory
                                            THEN desired ELSE l.peak_memory],
          allowed |-> TRUE]

\* table_growing: the limiter after the request, and whether it was allowed.
table_growing(l, desired) ==
    IF desired > l.max_table_elements
    THEN [lim |-> [l EXCEPT !.limit_exceeded = TRUE], allowed |-> FALSE]
    ELSE [lim |-> l, allowed |-> TRUE]

GrowSizes == 0..MaxGrow
TableSizes == {MaxTableElements, MaxTableElements + 1}

(* ------------------------------ I/O ------------------------------------ *)
\* String::from_utf8_lossy on the captured bytes: invalid bytes become U+FFFD.
to_string_lossy(buf) ==
    [i \in 1..Len(buf) |-> IF buf[i] < 128 THEN buf[i] ELSE ReplacementChar]

\* SandboxIo::new: fresh, empty capture buffers.
SandboxIoNew == [stdout |-> <<>>, stderr |-> <<>>]

(* ------------------------ failure classification ----------------------- *)
\* What start.call can hand back as an error, as the classifier sees it:
\*   trap:      result of error.downcast_ref::<Trap>()
\*   exit:      result of error.downcast_ref::<I32Exit>() (None or the code)
\*   txtInterrupt: some message of error.chain() contains "epoch" or
\*                 "interrupt" (lower-cased)
\*   txtFuel:      some message of error.chain() contains "fuel"
\* A Trap met while walking the chain displays as "interrupt" or "all fuel
\* consumed by WebAssembly", so the chain's own Trap tests add nothing to the
\* two text tests.
TrapKinds == {"none", "Interrupt", "OutOfFuel", "Other"}
Errors ==
    { e \in [trap : TrapKinds, exit : {None} \cup ExitCodes,
             txtInterrupt : BOOLEAN, txtFuel : BOOLEAN] :
        /\ (e.trap # "none") => e.exit = None
        /\ (e.trap = "Interrupt") => e.txtInterrupt
        /\ (e.trap = "OutOfFuel") => e.txtFuel }

is_epoch_interrupt(e) ==
    IF e.trap # "none" THEN e.trap = "Interrupt"
    ELSE e.txtInterrupt

is_out_of_fuel(e) ==
    IF e.trap # "none" THEN e.trap = "OutOfFuel"
    ELSE e.txtFuel

\* Results of execute (Ok(ExecutionResult) or Err(SandboxError)) in one shape.
MkResult(kind, exit_code, stdout, stderr, peak, fuel, dur, detail) ==
    [kind |-> kind, exit_code |-> exit_code, stdout |-> stdout,
     stderr |-> stderr, peak_memory |-> peak, fuel_consumed |-> fuel,
     duration |-> dur, detail |-> detail]

NoResult == MkResult("none", None, <<>>, <<>>, 0, None, 0, "")
Err(kind, dur, detail) == MkResult(kind, None, <<>>, <<>>, 0, None, dur, detail)

\* SandboxError's predicates: each matches one variant.
SandboxError_is_timeout(r) == r.kind = "Timeout"
SandboxError_is_memory_limit(r) == r.kind = "MemoryLimitExceeded"
SandboxError_is_out_of_fuel(r) == r.kind = "OutOfFuel"

saturating_sub(a, b) == IF a > b THEN a - b ELSE 0

\* store.get_fuel().unwrap_or(0)
FuelRemaining(st) == IF st.fuel_enabled THEN st.fuel ELSE 0

\* The metadata field filled with the remaining budget.
FuelConsumed_Remaining(initial_fuel, st) ==
    IF IsSome(initial_fuel) THEN FuelRemaining(st) ELSE None

FuelConsumed(initial_fuel, st) ==
    IF IsSome(initial_fuel) THEN saturating_sub(initial_fuel, FuelRemaining(st))
    ELSE None

\* Result assembly of execute_sync after the entry point returned an exit code.
AssembleResult(st, exit_code, initial_fuel, elapsed) ==
    MkResult("Ok", exit_code, to_string_lossy(st.io.stdout),
             to_string_lossy(st.io.stderr), st.limiter.current_memory,
             FuelConsumed(initial_fuel, st), elapsed, "")

\* The match without its interrupt arms: an epoch interrupt falls through to
\* the later arms.
ClassifyCall_NoInterrupt(st, ok, outcome, initial_fuel, elapsed) ==
    IF ok THEN AssembleResult(st, 0, initial_fuel, elapsed)
    ELSE IF st.limiter.limit_exceeded
         THEN Err("MemoryLimitExceeded", 0, "execution")
    ELSE IF is_out_of_fuel(outcome)
         THEN Err("ExecutionFailed", 0, "out_of_fuel")
    ELSE IF outcome.exit # None
         THEN AssembleResult(st, outcome.exit, initial_fuel, elapsed)
    ELSE Err("ExecutionFailed", 0, "raw")

\* The match on start.call's result in execute_sync: ok is Ok(()), otherwise
\* outcome is the error.
ClassifyCall(st, ok, outcome, initial_fuel, elapsed) ==
    IF ok THEN AssembleResult(st, 0, initial_fuel, elapsed)
    ELSE IF st.limiter.limit_exceeded
         THEN Err("MemoryLimitExceeded", 0, "execution")
    ELSE IF outcome.trap = "Interrupt" THEN Err("Timeout", elapsed, "")
    ELSE IF is_epoch_interrupt(outcome) THEN Err("Timeout", elapsed, "")
    ELSE IF is_out_of_fuel(outcome)
         THEN Err("ExecutionFailed", 0, "out_of_fuel")
    ELSE IF outcome.exit # None
         THEN AssembleResult(st, outcome.exit, initial_fuel, elapsed)
    ELSE Err("ExecutionFailed", 0, "raw")

\* map_err of linker.instantiate that does not consult the limiter.
ClassifyInstantiate_Always(lim) ==
    Err("MemoryLimitExceeded", 0, "instantiation")

\* map_err of linker.instantiate without its limit_exceeded branch.
ClassifyInstantiate_NoLimiter(lim) ==
    Err("ModuleLoad", 0, "instantiate")

\* map_err of linker.instantiate in execute_sync.
ClassifyInstantiate(lim) ==
    IF lim.limit_exceeded THEN Err("MemoryLimitExceeded", 0, "instantiation")
    ELSE Err("ModuleLoad", 0, "instantiate")

NoError ==
    [trap |-> "none", exit |-> None, txtInterrupt |-> FALSE, txtFuel |-> FALSE]

(* ------------------------------ state ---------------------------------- *)
VARIABLES
    now,            \* the clock
    epoch,          \* engine -> its interrupt (epoch) counter
    consume_fuel,   \* engine -> whether fuel accounting is on
    sandbox,        \* sandbox -> [built, config, engine]
    call,           \* call -> the execute future: pc, sandbox, arguments, result
    ticker,         \* call -> its epoch ticker task
    task,           \* call -> its blocking task (execute_sync) and its Store
    guest,          \* call -> the guest: its program and what it has done
    cache,          \* ModuleCache.cache: canonical path -> artifact (0 = absent)
    gc,             \* get_or_compile call -> its position and locals
    compiled,       \* artifacts compiled so far (Arc allocations)
    hist,           \* history of the cache: insertions and evictions per path
    lim,            \* a SandboxLimiter driven on its own: its last call and state
    bld,            \* a SandboxConfigBuilder and the last SandboxConfig it built
    creating,       \* sandbox constructions on the cache: the look before the call
    px              \* a call of parse_python_exception: its text and its result

execVars == <<now, epoch, consume_fuel, sandbox, call, ticker, task, guest>>
cacheVars == <<cache, gc, compiled, hist>>
unitVars == <<lim, bld, creating, px>>
vars == <<now, epoch, consume_fuel, sandbox, call, ticker, task, guest,
          cache, gc, compiled, hist, lim, bld, creating, px>>

NoConfig ==
    [timeout |-> 1, epoch_tick_interval |-> 1, max_memory |-> 2,
     max_fuel |-> None, stdin |-> None]

NoStore ==
    [epoch_deadline |-> 0, fuel_enabled |-> FALSE, fuel |-> 0,
     limiter |-> SandboxLimiterNew(0), io |-> SandboxIoNew, stdin |-> None]

IdleCall == [pc |-> "idle", sb |-> 1, input |-> None, start |-> 0,
             result |-> NoResult]
NoTicker == [st |-> "none", next |-> 0]
NoTask == [pc |-> "none", start_time |-> 0, store |-> NoStore,
           res |-> NoResult]
\* ended: what start.call returned (ok, or the error), once it has returned.
\* inst: how linker.instantiate and the lookup of _start went.
\* tripped_by: the call whose increment_epoch took the engine's counter to
\* this call's store deadline (0: the deadline has not been reached).
NoEnd == [returned |-> FALSE, ok |-> FALSE, error |-> NoError]
NoGuest == [prog |-> [kind |-> "loop", dur |-> 0], gstart |-> 0, burned |-> 0,
            stdout |-> <<>>, stderr |-> <<>>, denied |-> FALSE,
            mem_denied |-> FALSE, started |-> FALSE, inst |-> "none",
            tripped_by |-> 0, ended |-> NoEnd]

Cfg(c) == sandbox[call[c].sb].config
Eng(c) == sandbox[call[c].sb].engine

InitExec ==
    /\ now = 0
    /\ epoch = [e \in Engines |-> 0]
    /\ consume_fuel \in {f \in [Engines -> BOOLEAN] : \A s \in Sandboxes : ~f[s]}
    /\ sandbox = [s \in Sandboxes |->
                    [built |-> FALSE, config |-> NoConfig, engine |-> s]]
    /\ call = [c \in Calls |-> IdleCall]
    /\ ticker = [c \in Calls |-> NoTicker]
    /\ task = [c \in Calls |-> NoTask]
    /\ guest = [c \in Calls |-> NoGuest]

(* ------------------------- sandbox construction ------------------------ *)
\* PythonSandbox::new_with_options: the engine is the shared one or a fresh
\* one whose fuel accounting follows config.max_fuel.
NewSandbox(s, cfgs, shareds) ==
    /\ ~sandbox[s].built
    /\ \E cfg \in cfgs, shared \in shareds :
         /\ sandbox' = [sandbox EXCEPT ![s] =
                [built |-> TRUE, config |-> cfg,
                 engine |-> IF shared THEN SharedEngineId ELSE s]]
         /\ consume_fuel' = IF shared THEN consume_fuel
                            ELSE [consume_fuel EXCEPT ![s] = IsSome(cfg.max_fuel)]
    /\ UNCHANGED <<now, epoch, call, ticker, task, guest, cacheVars, unitVars>>

(* ------------------------------ execute -------------------------------- *)
\* execute up to the select: spawn the ticker (tokio's interval fires its
\* first tick at once), spawn the blocking task, then wait.
Execute(c, progs, inputs) ==
    /\ call[c].pc = "idle"
    /\ \E s \in Sandboxes, prog \in progs, input \in inputs :
         /\ sandbox[s].built
         /\ now + sandbox[s].config.timeout <= MaxTime
         /\ call' = [call EXCEPT ![c] =
                [pc |-> "select", sb |-> s, input |-> input, start |-> now,
                 result |-> NoResult]]
         /\ guest' = [guest EXCEPT ![c] = [NoGuest EXCEPT !.prog = prog]]
    /\ ticker' = [ticker EXCEPT ![c] = [st |-> "sleeping", next |-> now]]
    /\ task' = [task EXCEPT ![c] = [NoTask EXCEPT !.pc = "spawned"]]
    /\ UNCHANGED <<now, epoch, consume_fuel, sandbox, cacheVars, unitVars>>

\* Engine::increment_epoch() made by call d, as the stores of the engine see
\* it: a store whose deadline the counter now reaches is interrupted at its
\* guest's next check.
IncrementSeen(d) ==
    [c \in Calls |->
        IF /\ task[c].pc \notin {"none", "spawned"}
           /\ Eng(c) = Eng(d)
           /\ epoch[Eng(d)] + 1 = task[c].store.epoch_deadline
        THEN [guest[c] EXCEPT !.tripped_by = d]
        ELSE guest[c]]

\* The ticker's interval.tick().await completes.
TickerWake(c) ==
    /\ ticker[c].st = "sleeping"
    /\ ticker[c].next <= now
    /\ ticker' = [ticker EXCEPT ![c] =
            [st |-> "woken", next |-> @.next + Cfg(c).epoch_tick_interval]]
    /\ UNCHANGED <<now, epoch, consume_fuel, sandbox, call, task, guest, cacheVars, unitVars>>

\* ticker_engine.increment_epoch(), then back to interval.tick().await; a
\* ticker whose abort arrived while it was running stops here.
TickerIncrement(c) ==
    /\ ticker[c].st \in {"woken", "abort_pending"}
    /\ epoch' = [epoch EXCEPT ![Eng(c)] = @ + 1]
    /\ ticker' = [ticker EXCEPT ![c].st =
            IF @ = "woken" THEN "sleeping" ELSE "aborted"]
    /\ guest' = IncrementSeen(c)
    /\ UNCHANGED <<now, consume_fuel, sandbox, call, task, cacheVars, unitVars>>

\* ticker_handle.abort(): a ticker waiting for its tick is cancelled; one
\* that is being polled is cancelled when it next yields.
\* An abort that the ticker task never observes.
AbortOutcomes_Ignored(st) == {st}

AbortOutcomes(st) ==
    IF st = "sleeping" THEN {"aborted"}
    ELSE IF st = "woken" THEN {"aborted", "abort_pending"}
    ELSE {st}

(* ------------------------- the blocking task --------------------------- *)
\* The call's argument taking precedence: input.or(stdin_data).
effective_input_InputFirst(stdin_data, input) ==
    IF IsSome(input) THEN input ELSE stdin_data

\* let effective_input = stdin_data.or(input);
effective_input(stdin_data, input) ==
    IF IsSome(stdin_data) THEN stdin_data ELSE input

\* execute_sync up to linker.instantiate: start_time, I/O, WASI context (no
\* stdout or stderr is given to the WASI builder), Store with a fresh limiter,
\* epoch deadline one tick ahead of the engine's current epoch, fuel.
TaskBegin(c) ==
    /\ task[c].pc = "spawned"
    /\ LET cfg == Cfg(c)
           st == [epoch_deadline |-> epoch[Eng(c)] + 1,
                  fuel_enabled |-> consume_fuel[Eng(c)],
                  fuel |-> IF IsSome(cfg.max_fuel) /\ consume_fuel[Eng(c)]
                           THEN cfg.max_fuel ELSE 0,
                  limiter |-> SandboxLimiterNew(cfg.max_memory),
                  io |-> SandboxIoNew,
                  stdin |-> effective_input(cfg.stdin, call[c].input)]
       IN  task' = [task EXCEPT ![c] =
               IF IsSome(cfg.max_fuel) /\ ~consume_fuel[Eng(c)]
               THEN [pc |-> "done", start_time |-> now, store |-> st,
                     res |-> Err("RuntimeInit", 0, "set_fuel")]
               ELSE [pc |-> "setup", start_time |-> now, store |-> st,
                     res |-> NoResult]]
    /\ UNCHANGED <<now, epoch, consume_fuel, sandbox, call, ticker, guest, cacheVars, unitVars>>

InstOutcomes == {"ok", "inst_fail", "no_start"}

\* linker.instantiate (which asks the limiter for the module's initial memory
\* and table) and get_typed_func("_start").
Instantiate(c, mems, tables) ==
    /\ task[c].pc = "setup"
    /\ \E initMem \in mems, initTable \in tables, oc \in InstOutcomes :
         LET r1 == memory_growing(task[c].store.limiter, initMem)
             r2 == IF r1.allowed THEN table_growing(r1.lim, initTable) ELSE r1
             failed == ~r2.allowed \/ oc = "inst_fail"
         IN  /\ task' = [task EXCEPT
                    ![c].store.limiter = r2.lim,
                    ![c].pc = IF failed \/ oc = "no_start" THEN "done"
                              ELSE "running",
                    ![c].res = IF failed THEN ClassifyInstantiate(r2.lim)
                               ELSE IF oc = "no_start"
                                    THEN Err("ModuleLoad", 0, "no_start")
                               ELSE NoResult]
             /\ guest' = [guest EXCEPT
                    ![c].gstart = now,
                    ![c].started = ~(failed \/ oc = "no_start"),
                    ![c].inst = IF failed THEN "failed" ELSE oc,
                    ![c].denied = ~r2.allowed,
                    ![c].mem_denied = ~r1.allowed]
    /\ UNCHANGED <<now, epoch, consume_fuel, sandbox, call, ticker, cacheVars, unitVars>>

(* ------------------------------ the guest ------------------------------ *)
Running(c) == task[c].pc = "running"

\* The guest writes a byte to its stdout (fd 1) or stderr (fd 2).  The WASI
\* context was built without a stdout or stderr stream, so the byte does not
\* reach the SandboxIo buffers of the Store.
GuestWrite(c, fds, bytes) ==
    /\ Running(c)
    /\ \E fd \in fds, b \in bytes :
         /\ Len(guest[c].stdout) + Len(guest[c].stderr) < MaxOut
         /\ guest' = [guest EXCEPT
                ![c].stdout = IF fd = 1 THEN Append(@, b) ELSE @,
                ![c].stderr = IF fd = 2 THEN Append(@, b) ELSE @]
    /\ UNCHANGED <<now, epoch, consume_fuel, sandbox, call, ticker, task, cacheVars, unitVars>>

\* memory.grow in the guest: the engine asks the limiter first.
GuestGrowMemory(c) ==
    /\ Running(c)
    /\ \E desired \in GrowSizes :
         LET r == memory_growing(task[c].store.limiter, desired)
         IN  /\ task' = [task EXCEPT ![c].store.limiter = r.lim]
             /\ guest' = [guest EXCEPT
                    ![c].denied = @ \/ ~r.allowed,
                    ![c].mem_denied = @ \/ ~r.allowed]
    /\ UNCHANGED <<now, epoch, consume_fuel, sandbox, call, ticker, cacheVars, unitVars>>

\* table.grow in the guest.
GuestGrowTable(c) ==
    /\ Running(c)
    /\ \E desired \in TableSizes :
         LET r == table_growing(task[c].store.limiter, desired)
         IN  /\ task' = [task EXCEPT ![c].store.limiter = r.lim]
             /\ guest' = [guest EXCEPT ![c].denied = @ \/ ~r.allowed]
    /\ UNCHANGED <<now, epoch, consume_fuel, sandbox, call, ticker, cacheVars, unitVars>>

MoreToRun(c) ==
    guest[c].prog.kind = "loop" \/ guest[c].burned < Need(guest[c].prog)

\* The guest executes instructions: one unit of fuel is charged.
GuestBurn(c) ==
    /\ Running(c)
    /\ task[c].store.fuel_enabled
    /\ task[c].store.fuel > 0
    /\ MoreToRun(c)
    /\ task' = [task EXCEPT ![c].store.fuel = @ - 1]
    /\ guest' = [guest EXCEPT ![c].burned =
            IF guest[c].prog.kind = "loop" THEN @ ELSE @ + 1]
    /\ UNCHANGED <<now, epoch, consume_fuel, sandbox, call, ticker, cacheVars, unitVars>>

\* The guest has run its dur clock units and all its instructions.
RanToEnd(c) ==
    /\ guest[c].prog.kind # "loop"
    /\ now >= guest[c].gstart + guest[c].prog.dur
    /\ task[c].store.fuel_enabled => guest[c].burned = Need(guest[c].prog)

\* When start.call can return Ok(()) (ok) or the error e.
CanReturn(c, ok, e) ==
    IF ok THEN e = NoError /\ guest[c].prog.kind = "finish" /\ RanToEnd(c)
    ELSE \/ e.exit # None /\ guest[c].prog.kind = "exit" /\ RanToEnd(c)
         \/ e.trap = "Interrupt" /\ epoch[Eng(c)] >= task[c].store.epoch_deadline
         \/ /\ e.trap = "OutOfFuel"
            /\ task[c].store.fuel_enabled
            /\ task[c].store.fuel = 0
            /\ MoreToRun(c)
         \/ /\ e.trap \in {"none", "Other"}
            /\ e.exit = None
            /\ \/ guest[c].prog.kind = "trap" /\ RanToEnd(c)
               \/ guest[c].denied

\* start.call returns and execute_sync classifies the outcome.
StartCallReturns(c) ==
    /\ Running(c)
    /\ \E ok \in BOOLEAN, e \in Errors :
         /\ CanReturn(c, ok, e)
         /\ task' = [task EXCEPT
                ![c].pc = "done",
                ![c].res = ClassifyCall(task[c].store, ok, e, Cfg(c).max_fuel,
                                        now - task[c].start_time)]
         /\ guest' = [guest EXCEPT ![c].ended =
                [returned |-> TRUE, ok |-> ok, error |-> e]]
    /\ UNCHANGED <<now, epoch, consume_fuel, sandbox, call, ticker, cacheVars, unitVars>>

\* The blocking task panics: its JoinHandle yields a JoinError.
TaskPanic(c) ==
    /\ Running(c)
    /\ task' = [task EXCEPT ![c].pc = "panicked"]
    /\ UNCHANGED <<now, epoch, consume_fuel, sandbox, call, ticker, guest, cacheVars, unitVars>>

(* ------------------------------ the select ----------------------------- *)
\* The join point with the JoinError resumed in the caller (a panic value).
JoinResult_Propagate(t) ==
    IF t.pc = "done" THEN t.res ELSE Err("panic", 0, "resumed")

\* The join point keeping a success and flattening every typed error.
JoinResult_Flatten(t) ==
    IF t.pc = "done" /\ t.res.kind = "Ok" THEN t.res
    ELSE Err("ExecutionFailed", 0, "task panicked")

\* The match on the JoinHandle's output in the exec_handle branch.
JoinResult(t) ==
    IF t.pc = "done" THEN t.res
    ELSE Err("ExecutionFailed", 0, "task panicked")

\* select!: the exec_handle branch.
ExecJoin(c) ==
    /\ call[c].pc = "select"
    /\ task[c].pc \in {"done", "panicked"}
    /\ \E st \in AbortOutcomes(ticker[c].st) :
         ticker' = [ticker EXCEPT ![c].st = st]
    /\ call' = [call EXCEPT
            ![c].pc = "returned",
            ![c].result = JoinResult(task[c])]
    /\ UNCHANGED <<now, epoch, consume_fuel, sandbox, task, guest, cacheVars, unitVars>>

\* The sleep(timeout) branch without the forced increment_epoch.
SelectTimeout_NoIncrement(c) ==
    /\ call[c].pc = "select"
    /\ now >= call[c].start + Cfg(c).timeout
    /\ \E st \in AbortOutcomes(ticker[c].st) :
         ticker' = [ticker EXCEPT ![c].st = st]
    /\ call' = [call EXCEPT
            ![c].pc = "returned",
            ![c].result = Err("Timeout", Cfg(c).timeout, "deadline")]
    /\ UNCHANGED <<now, epoch, consume_fuel, sandbox, task, guest, cacheVars, unitVars>>

\* select!: the sleep(timeout) branch.
SelectTimeout(c) ==
    /\ call[c].pc = "select"
    /\ now >= call[c].start + Cfg(c).timeout
    /\ \E st \in AbortOutcomes(ticker[c].st) :
         ticker' = [ticker EXCEPT ![c].st = st]
    /\ epoch' = [epoch EXCEPT ![Eng(c)] = @ + 1]
    /\ guest' = IncrementSeen(c)
    /\ call' = [call EXCEPT
            ![c].pc = "returned",
            ![c].result = Err("Timeout", Cfg(c).timeout, "deadline")]
    /\ UNCHANGED <<now, consume_fuel, sandbox, task, cacheVars, unitVars>>

\* The caller drops the future of execute while it waits in the select: the
\* JoinHandles of the ticker and of the blocking task and the sleep are
\* dropped with it.  A dropped JoinHandle detaches its task.
DropExecute(c) ==
    /\ call[c].pc = "select"
    /\ call' = [call EXCEPT ![c].pc = "dropped"]
    /\ UNCHANGED <<now, epoch, consume_fuel, sandbox, ticker, task, guest, cacheVars, unitVars>>

(* ------------------------------ the clock ------------------------------ *)
\* Something is due at the present instant.  With prompt, the blocking pool
\* has a free thread and a spawned task begins at once.
Due(c, prompt) ==
    \/ prompt /\ task[c].pc = "spawned"
    \/ ticker[c].st = "sleeping" /\ ticker[c].next <= now
    \/ ticker[c].st \in {"woken", "abort_pending"}
    \/ task[c].pc = "setup"
    \/ Running(c) /\ guest[c].prog.kind # "loop"
                  /\ now >= guest[c].gstart + guest[c].prog.dur
    \/ call[c].pc = "select" /\ task[c].pc \in {"done", "panicked"}
    \/ call[c].pc = "select" /\ now >= call[c].start + Cfg(c).timeout

InFlight(c) ==
    \/ call[c].pc = "select"
    \/ task[c].pc \in {"spawned", "setup", "running"}
    \/ call[c].pc = "dropped" /\ ticker[c].st \in {"sleeping", "woken"}

\* The clock is only followed while an execution is in flight.
Advance(prompt) ==
    /\ now < MaxTime
    /\ \E c \in Calls : InFlight(c)
    /\ \A c \in Calls : ~Due(c, prompt)
    /\ now' = now + 1
    /\ UNCHANGED <<epoch, consume_fuel, sandbox, call, ticker, task, guest, cacheVars, unitVars>>

(* ---------------------------- module cache ----------------------------- *)
\* The filesystem the cache sees: "link" is a symlink to "py", "bad" holds
\* bytes that are no module, "gone" does not exist, "locked" lies in a
\* directory that may not be searched, "dir" is a directory.
Paths == {"py", "link", "py2", "bad", "gone", "locked", "dir"}
CanonPaths == {"py", "py2", "bad", "dir"}
GcCalls == 1..MaxGcCalls

\* What the filesystem holds at a path.
FsEntry(p) ==
    CASE p = "gone" -> "absent"
      [] p = "locked" -> "denied"
      [] p = "link" -> "symlink"
      [] p = "dir" -> "directory"
      [] OTHER -> "file"

\* canonicalize's map_err with every error reported as Io.
canonicalize_AllIo(p) ==
    IF FsEntry(p) \in {"absent", "denied"}
    THEN [ok |-> FALSE, canon |-> "py", err |-> "Io"]
    ELSE IF FsEntry(p) = "symlink"
    THEN [ok |-> TRUE, canon |-> "py", err |-> "none"]
    ELSE [ok |-> TRUE, canon |-> p, err |-> "none"]

\* std::fs::canonicalize with get_or_compile's map_err.
canonicalize(p) ==
    IF FsEntry(p) = "absent"
    THEN [ok |-> FALSE, canon |-> "py", err |-> "InterpreterNotFound"]
    ELSE IF FsEntry(p) = "denied"
    THEN [ok |-> FALSE, canon |-> "py", err |-> "Io"]
    ELSE IF FsEntry(p) = "symlink"
    THEN [ok |-> TRUE, canon |-> "py", err |-> "none"]
    ELSE [ok |-> TRUE, canon |-> p, err |-> "none"]

\* std::fs::read of the canonical path succeeds.
Readable(canon) == FsEntry(canon) = "file"

\* Module::new succeeds on the bytes of the file.
ValidModule(canon) == canon # "bad"

NoArtifact == 0
IdleGc ==
    [pc |-> "idle", path |-> "py", canon |-> "py", module |-> NoArtifact, ret |-> NoArtifact,
     err |-> "none", startEv |-> 0, endEv |-> 0, startIns |-> 0, endIns |-> 0]

\* hist.live: the canonical paths inserted and not since removed or cleared.
\* hist.call: the last observed call of contains, remove, clear or len, with
\* its argument, what it returned and hist.live as it was before the call.
NoCacheCall ==
    [op |-> "none", path |-> "py", ret |-> FALSE, n |-> 0, before |-> {}]

InitCache ==
    /\ cache = [k \in CanonPaths |-> NoArtifact]
    /\ gc = [i \in GcCalls |-> IdleGc]
    /\ compiled = 0
    /\ hist = [ins |-> [k \in CanonPaths |-> 0], ev |-> [k \in CanonPaths |-> 0],
               obs |-> "none", live |-> {}, call |-> NoCacheCall]

\* get_or_compile without its first lookup: every call goes on to compile.
ReadLookup_Skip(map, canon) == NoArtifact

\* The block under the read lock: the stored artifact, if any.
ReadLookup(map, canon) == map[canon]

\* get_or_compile: canonicalize, then the lookup under the read lock.
GcLookup(i, paths) ==
    /\ gc[i].pc = "idle"
    /\ \E p \in paths :
         LET r == canonicalize(p)
         IN  gc' = [gc EXCEPT ![i] =
                 IF ~r.ok
                 THEN [IdleGc EXCEPT !.pc = "done", !.path = p, !.err = r.err]
                 ELSE [IdleGc EXCEPT
                         !.path = p,
                         !.canon = r.canon,
                         !.startEv = hist.ev[r.canon],
                         !.startIns = hist.ins[r.canon],
                         !.endEv = hist.ev[r.canon],
                         !.endIns = hist.ins[r.canon],
                         !.pc = IF ReadLookup(cache, r.canon) # NoArtifact
                                THEN "done" ELSE "compile",
                         !.ret = ReadLookup(cache, r.canon)]]
    /\ UNCHANGED <<cache, compiled, hist, execVars, unitVars>>

\* get_or_compile: read the file and compile it, outside any lock.
GcCompile(i) ==
    /\ gc[i].pc = "compile"
    /\ IF ~Readable(gc[i].canon)
       THEN /\ compiled' = compiled
            /\ gc' = [gc EXCEPT ![i].pc = "done", ![i].err = "Io"]
       ELSE IF ValidModule(gc[i].canon)
       THEN /\ compiled' = compiled + 1
            /\ gc' = [gc EXCEPT ![i].pc = "insert", ![i].module = compiled + 1]
       ELSE /\ compiled' = compiled
            /\ gc' = [gc EXCEPT ![i].pc = "done", ![i].err = "ModuleLoad"]
    /\ UNCHANGED <<cache, hist, execVars, unitVars>>

\* The write-lock block without the second lookup: the entry is overwritten.
InsertChecked_Overwrite(map, canon, module) ==
    [map |-> [map EXCEPT ![canon] = module], ret |-> module, inserted |-> TRUE]

\* The write-lock block whose loser keeps its own compilation.
InsertChecked_ReturnOwn(map, canon, module) ==
    IF map[canon] # NoArtifact
    THEN [map |-> map, ret |-> module, inserted |-> FALSE]
    ELSE [map |-> [map EXCEPT ![canon] = module], ret |-> module,
          inserted |-> TRUE]

\* The block under the write lock: the map afterwards and the handle returned.
InsertChecked(map, canon, module) ==
    IF map[canon] # NoArtifact
    THEN [map |-> map, ret |-> map[canon], inserted |-> FALSE]
    ELSE [map |-> [map EXCEPT ![canon] = module], ret |-> module,
          inserted |-> TRUE]

\* get_or_compile: the double-checked insertion and the return.
GcInsert(i) ==
    /\ gc[i].pc = "insert"
    /\ LET r == InsertChecked(cache, gc[i].canon, gc[i].module)
           ins == IF r.inserted
                  THEN [hist.ins EXCEPT ![gc[i].canon] = @ + 1] ELSE hist.ins
       IN  /\ cache' = r.map
           /\ hist' = [hist EXCEPT !.ins = ins,
                                   !.live = @ \cup {gc[i].canon}]
           /\ gc' = [gc EXCEPT ![i].pc = "done", ![i].ret = r.ret,
                                ![i].endEv = hist.ev[gc[i].canon],
                                ![i].endIns = ins[gc[i].canon]]
    /\ UNCHANGED <<compiled, execVars, unitVars>>

\* remove that reports the entry and leaves it in the map.
RemoveEntry_Keep(map, r) ==
    [map |-> map, ret |-> r.ok /\ map[r.canon] # NoArtifact]

\* The body of remove: cache.remove(&canonical).is_some(), or false when the
\* path cannot be canonicalized.
RemoveEntry(map, r) ==
    IF r.ok /\ map[r.canon] # NoArtifact
    THEN [map |-> [map EXCEPT ![r.canon] = NoArtifact], ret |-> TRUE]
    ELSE [map |-> map, ret |-> FALSE]

\* ModuleCache::remove; seen: the call is recorded in hist.call.
RemoveOn(paths, seen) ==
    /\ \E p \in paths :
         LET r == canonicalize(p)
             present == r.ok /\ cache[r.canon] # NoArtifact
             done == RemoveEntry(cache, r)
         IN  /\ cache' = done.map
             /\ hist' = [hist EXCEPT
                    !.ev = IF present THEN [@ EXCEPT ![r.canon] = @ + 1] ELSE @,
                    !.obs = IF done.ret THEN "removed" ELSE "not removed",
                    !.live = IF r.ok THEN @ \ {r.canon} ELSE @,
                    !.call = IF seen
                             THEN [op |-> "remove", path |-> p, ret |-> done.ret,
                                   n |-> 0, before |-> hist.live]
                             ELSE @]
    /\ UNCHANGED <<gc, compiled, execVars, unitVars>>

Remove(paths) == RemoveOn(paths, FALSE)

\* ModuleCache::clear.
ClearOn(seen) ==
    /\ cache' = [k \in CanonPaths |-> NoArtifact]
    /\ hist' = [hist EXCEPT
            !.ev = [k \in CanonPaths |->
                      IF cache[k] # NoArtifact THEN @[k] + 1 ELSE @[k]],
            !.obs = "cleared",
            !.live = {},
            !.call = IF seen
                     THEN [op |-> "clear", path |-> "py", ret |-> FALSE,
                           n |-> 0, before |-> hist.live]
                     ELSE @]
    /\ UNCHANGED <<gc, compiled, execVars, unitVars>>

Clear == ClearOn(FALSE)

\* ModuleCache::contains.
ContainsOn(paths, seen) ==
    /\ \E p \in paths :
         LET r == canonicalize(p)
             ret == r.ok /\ cache[r.canon] # NoArtifact
         IN  hist' = [hist EXCEPT
                 !.obs = IF ret THEN "contained" ELSE "not contained",
                 !.call = IF seen
                          THEN [op |-> "contains", path |-> p, ret |-> ret,
                                n |-> 0, before |-> hist.live]
                          ELSE @]
    /\ UNCHANGED <<cache, gc, compiled, execVars, unitVars>>

Contains(paths) == ContainsOn(paths, FALSE)

\* ModuleCache::len.
CacheLenOn(seen) ==
    /\ LET n == Cardinality({k \in CanonPaths : cache[k] # NoArtifact})
       IN  hist' = [hist EXCEPT
               !.obs = n,
               !.call = IF seen
                        THEN [op |-> "len", path |-> "py", ret |-> FALSE,
                              n |-> n, before |-> hist.live]
                        ELSE @]
    /\ UNCHANGED <<cache, gc, compiled, execVars, unitVars>>

CacheLen == CacheLenOn(FALSE)

\* Paths that name a valid module.
ModulePaths == {"py", "link", "py2"}

\* Tasks sharing one cache: get_or_compile calls against the other operations.
NextCache ==
    \/ \E i \in GcCalls :
         GcLookup(i, ModulePaths) \/ GcCompile(i) \/ GcInsert(i)
    \/ Remove(ModulePaths)
    \/ Clear
    \/ Contains(ModulePaths)
    \/ CacheLen

(* ------------------- sandbox construction on the cache ----------------- *)
\* create_engine_and_module with use_cache: construction i is the caller of
\* get_or_compile call i, after a look at the cache with contains.
\* engine: the engine of the construction, 0 for the SharedEngine of the
\* options, i for the engine that construction i creates for itself.
NotCreating ==
    [pc |-> "none", path |-> "py", was_in_cache |-> FALSE, engine |-> 0]

\* let engine = if let Some(ref shared) = options.shared_engine { shared.arc() }
\* else { Arc::new(Engine::new(&engine_config)?) };
EngineOfOptions(i, shared) == IF shared THEN 0 ELSE i

InitCreating == creating = [i \in GcCalls |-> NotCreating]

\* The engine of the options, then
\* let was_in_cache = cache.contains(&config.interpreter_path);
CreateContains(i, paths, shareds) ==
    /\ creating[i].pc = "none"
    /\ gc[i].pc = "idle"
    /\ \E p \in paths :
         LET r == canonicalize(p)
         IN  \E shared \in shareds :
               creating' = [creating EXCEPT ![i] =
                 [pc |-> "checked", path |-> p,
                  was_in_cache |-> r.ok /\ cache[r.canon] # NoArtifact,
                  engine |-> EngineOfOptions(i, shared)]]
    /\ UNCHANGED <<execVars, cacheVars, lim, bld, px>>

\* let module = cache.get_or_compile(&engine, &config.interpreter_path)?;
\* The call's compilation, if it comes to one, is Module::new(engine, ..).
CreateGetOrCompile(i) ==
    /\ creating[i].pc = "checked"
    /\ GcLookup(i, {creating[i].path})

\* Constructions, and other tasks' calls, sharing one cache.
NextCreate ==
    \/ \E i \in GcCalls :
         \/ CreateContains(i, ModulePaths, BOOLEAN)
         \/ CreateGetOrCompile(i)
         \/ GcCompile(i)
         \/ GcInsert(i)
    \/ Remove(ModulePaths)
    \/ Clear

(* ------------------------ the exception parser ------------------------- *)
\* Text is a sequence of characters; line and character indices count from 1
\* where the code counts from 0.
TracebackMarker ==
    <<"T", "r", "a", "c", "e", "b", "a", "c", "k", " ", "(", "m", "o", "s",
      "t", " ", "r", "e", "c", "e", "n", "t", " ", "c", "a", "l", "l", " ",
      "l", "a", "s", "t", ")", ":">>
Traceback == <<"T", "r", "a", "c", "e", "b", "a", "c", "k">>
Word_Error == <<"E", "r", "r", "o", "r">>
Word_Exception == <<"E", "x", "c", "e", "p", "t", "i", "o", "n">>
Word_Warning == <<"W", "a", "r", "n", "i", "n", "g">>
KeyboardInterrupt ==
    <<"K", "e", "y", "b", "o", "a", "r", "d", "I", "n", "t", "e", "r", "r",
      "u", "p", "t">>
SystemExit == <<"S", "y", "s", "t", "e", "m", "E", "x", "i", "t">>
StopIteration ==
    <<"S", "t", "o", "p", "I", "t", "e", "r", "a", "t", "i", "o", "n">>
GeneratorExit ==
    <<"G", "e", "n", "e", "r", "a", "t", "o", "r", "E", "x", "i", "t">>

exception_suffixes == {Word_Error, Word_Exception, Word_Warning}
standalone_exceptions ==
    {KeyboardInterrupt, SystemExit, StopIteration, GeneratorExit}

\* char::is_whitespace, over the characters of the texts.
Whitespace == {" ", "\t", "\n"}

is_ascii_uppercase(ch) ==
    ch \in {"A", "B", "C", "D", "E", "F", "G", "H", "I", "J", "K", "L", "M",
            "N", "O", "P", "Q", "R", "S", "T", "U", "V", "W", "X", "Y", "Z"}

SetMin(S) == CHOOSE m \in S : \A n \in S : m <= n
SetMax(S) == CHOOSE m \in S : \A n \in S : m >= n

\* str::starts_with.
starts_with(s, pat) == Len(s) >= Len(pat) /\ SubSeq(s, 1, Len(pat)) = pat

\* str::rfind: the index of the last occurrence of pat in s, or None.
rfind(s, pat) ==
    LET hits == {i \in 1..(Len(s) - Len(pat) + 1) :
                    SubSeq(s, i, i + Len(pat) - 1) = pat}
    IN  IF hits = {} THEN None ELSE SetMax(hits)

\* str::find: the index of the first occurrence of pat in s, or None.
find(s, pat) ==
    LET hits == {i \in 1..(Len(s) - Len(pat) + 1) :
                    SubSeq(s, i, i + Len(pat) - 1) = pat}
    IN  IF hits = {} THEN None ELSE SetMin(hits)

\* str::trim: leading and trailing whitespace removed.
trim(s) ==
    LET keep == {i \in 1..Len(s) : s[i] \notin Whitespace}
    IN  IF keep = {} THEN <<>> ELSE SubSeq(s, SetMin(keep), SetMax(keep))

\* str::lines: split at each newline; no line is produced after a final one.
RECURSIVE str_lines(_)
str_lines(s) ==
    IF s = <<>> THEN <<>>
    ELSE LET nl == find(s, <<"\n">>)
         IN  IF nl = None THEN <<s>>
             ELSE <<SubSeq(s, 1, nl - 1)>> \o str_lines(SubSeq(s, nl + 1, Len(s)))

\* [&str]::join("\n").
RECURSIVE join(_)
join(ls) ==
    IF ls = <<>> THEN <<>>
    ELSE IF Len(ls) = 1 THEN ls[1]
    ELSE ls[1] \o <<"\n">> \o join(Tail(ls))

\* after_ok of looks_like_exception: what follows the name, at index after_idx.
after_ok(line, after_idx) ==
    \/ after_idx > Len(line)
    \/ line[after_idx] \in {":", " ", "\n"}

looks_like_exception(line) ==
    /\ line # <<>>
    /\ is_ascii_uppercase(line[1])
    /\ \/ \E suffix \in exception_suffixes :
            LET idx == find(line, suffix)
            IN  idx # None /\ after_ok(line, idx + Len(suffix))
       \/ \E exc \in standalone_exceptions :
            starts_with(line, exc) /\ after_ok(line, Len(exc) + 1)

\* The filter of the scan loop: the line is recorded as the exception line.
IsCandidate(line) ==
    /\ ~starts_with(line, <<" ">>)
    /\ line # <<>>
    /\ ~starts_with(line, Traceback)
    /\ looks_like_exception(line)

NoScan == [traceback_start |-> None, exception_line |-> None]

\* A scan that keeps the first exception line it meets.
ScanLine_KeepFirst(st, i, line) ==
    LET st1 == IF starts_with(line, TracebackMarker)
               THEN [st EXCEPT !.traceback_start = i] ELSE st
    IN  IF IsCandidate(line) /\ st.exception_line = None
        THEN [st1 EXCEPT !.exception_line = i] ELSE st1

\* One iteration of the scan loop, on line i.
ScanLine(st, i, line) ==
    LET st1 == IF starts_with(line, TracebackMarker)
               THEN [st EXCEPT !.traceback_start = i] ELSE st
    IN  IF IsCandidate(line) THEN [st1 EXCEPT !.exception_line = i] ELSE st1

\* for (i, line) in lines.iter().enumerate(), from line i on.
RECURSIVE Scan(_, _, _)
Scan(ls, i, st) ==
    IF i > Len(ls) THEN st ELSE Scan(ls, i + 1, ScanLine(st, i, ls[i]))

\* The split of the exception line at its last colon.
SplitException_LastColon(exception_str) ==
    LET colon_pos == rfind(exception_str, <<":">>)
    IN  IF colon_pos # None
        THEN [exception_type |-> trim(SubSeq(exception_str, 1, colon_pos - 1)),
              message |-> trim(SubSeq(exception_str, colon_pos + 1,
                                      Len(exception_str)))]
        ELSE [exception_type |-> trim(exception_str), message |-> <<>>]

\* The split of the exception line into type and message.
SplitException(exception_str) ==
    LET colon_pos == find(exception_str, <<":">>)
    IN  IF colon_pos # None
        THEN [exception_type |-> trim(SubSeq(exception_str, 1, colon_pos - 1)),
              message |-> trim(SubSeq(exception_str, colon_pos + 1,
                                      Len(exception_str)))]
        ELSE [exception_type |-> trim(exception_str), message |-> <<>>]

NoTraceback == [some |-> FALSE, text |-> <<>>]
MkParse(kind, exception_type, message, traceback) ==
    [kind |-> kind, exception_type |-> exception_type, message |-> message,
     traceback |-> traceback]
Unparsed == MkParse("unparsed", <<>>, <<>>, NoTraceback)
ParseNone == MkParse("None", <<>>, <<>>, NoTraceback)
\* The slice lines[start..=line_idx] is out of order: the call panics.
ParsePanic == MkParse("panic", <<>>, <<>>, NoTraceback)

\* lines[start..=line_idx].join("\n") for a start not beyond line_idx + 1.
TracebackText(ls, start, line_idx) ==
    [some |-> TRUE, text |-> join(SubSeq(ls, start, line_idx))]

parse_python_exception(stderr) ==
    IF trim(stderr) = <<>> THEN ParseNone
    ELSE LET ls == str_lines(stderr)
         IN  IF ls = <<>> THEN ParseNone
             ELSE LET st == Scan(ls, 1, NoScan)
                      line_idx == st.exception_line
                      start == st.traceback_start
                  IN  IF line_idx = None THEN ParseNone
                      ELSE IF start # None /\ start > line_idx + 1
                           THEN ParsePanic
                      ELSE LET sp == SplitException(ls[line_idx])
                           IN  MkParse("Some", sp.exception_type, sp.message,
                                   IF start # None
                                   THEN TracebackText(ls, start, line_idx)
                                   ELSE NoTraceback)

\* The stderr texts given to the parser: up to MaxPieces pieces in a row.
Pieces ==
    {<<"\n">>, <<" ">>, <<"\t">>, <<":">>, <<"x">>, Word_Error, Traceback,
     TracebackMarker, StopIteration}

RECURSIVE Flatten(_)
Flatten(ps) == IF ps = <<>> THEN <<>> ELSE ps[1] \o Flatten(Tail(ps))

Texts ==
    {Flatten(ps) : ps \in UNION {[1..n -> Pieces] : n \in 0..MaxPieces}}

InitParse == px = [text |-> <<>>, res |-> Unparsed]

\* SandboxError::from_python_stderr(stderr) / parse_python_exception(stderr).
from_python_stderr ==
    /\ px.res.kind = "unparsed"
    /\ \E stderr \in Texts :
         px' = [text |-> stderr, res |-> parse_python_exception(stderr)]
    /\ UNCHANGED <<execVars, cacheVars, lim, bld, creating>>

NextParse == from_python_stderr

(* ------------------------ the limiter on its own ----------------------- *)
\* A SandboxLimiter as wasmtime drives it: created for a Store, then asked
\* about each growth.  pre is the limiter before the last call, desired and
\* allowed the call's argument and answer.
LimiterCeilings == 0..MaxGrow
LimiterRequests == 0..(MaxGrow + 1)

InitLimiter ==
    lim = [op |-> "new", pre |-> SandboxLimiterNew(0), desired |-> 0,
           allowed |-> TRUE, l |-> SandboxLimiterNew(0)]

\* SandboxLimiter::new(max_memory).
LimiterNew ==
    /\ \E m \in LimiterCeilings :
         lim' = [op |-> "new", pre |-> lim.l, desired |-> m, allowed |-> TRUE,
                 l |-> SandboxLimiterNew(m)]
    /\ UNCHANGED <<execVars, cacheVars, bld, creating, px>>

\* ResourceLimiter::memory_growing(current, desired, maximum).
LimiterMemoryGrowing ==
    /\ \E d \in LimiterRequests :
         LET r == memory_growing(lim.l, d)
         IN  lim' = [op |-> "memory", pre |-> lim.l, desired |-> d,
                     allowed |-> r.allowed, l |-> r.lim]
    /\ UNCHANGED <<execVars, cacheVars, bld, creating, px>>

\* ResourceLimiter::table_growing(current, desired, maximum).
LimiterTableGrowing ==
    /\ \E d \in TableSizes :
         LET r == table_growing(lim.l, d)
         IN  lim' = [op |-> "table", pre |-> lim.l, desired |-> d,
                     allowed |-> r.allowed, l |-> r.lim]
    /\ UNCHANGED <<execVars, cacheVars, bld, creating, px>>

NextLimiter == LimiterNew \/ LimiterMemoryGrowing \/ LimiterTableGrowing

(* ----------------------- the configuration builder -------------------- *)
\* SandboxConfig::default(): 30 seconds, 64 MiB, no fuel limit.
DefaultTimeout == 30
DefaultMaxMemory == 67108864

\* Arguments a caller may pass to the setters: any Duration, any u64.
SettingValues == 0..MaxSetting

\* #[derive(Default)] of SandboxConfigBuilder: every option unset.
SandboxConfigBuilderDefault ==
    [timeout |-> None, max_memory |-> None, max_fuel |-> None]

NoBuild == [timeout |-> None, max_memory |-> None, max_fuel |-> None]

unwrap_or(opt, dflt) == IF IsSome(opt) THEN opt ELSE dflt

\* SandboxConfigBuilder::build.
build(b) ==
    [timeout |-> unwrap_or(b.timeout, DefaultTimeout),
     max_memory |-> unwrap_or(b.max_memory, DefaultMaxMemory),
     max_fuel |-> b.max_fuel]

InitBuilder ==
    bld = [builder |-> SandboxConfigBuilderDefault, built |-> FALSE,
           config |-> NoBuild]

\* SandboxConfig::builder().
BuilderNew ==
    /\ bld' = [bld EXCEPT !.builder = SandboxConfigBuilderDefault]
    /\ UNCHANGED <<execVars, cacheVars, lim, creating, px>>

\* SandboxConfigBuilder::timeout(timeout).
BuilderTimeout ==
    /\ \E v \in SettingValues : bld' = [bld EXCEPT !.builder.timeout = v]
    /\ UNCHANGED <<execVars, cacheVars, lim, creating, px>>

\* SandboxConfigBuilder::max_memory(bytes).
BuilderMaxMemory ==
    /\ \E v \in SettingValues : bld' = [bld EXCEPT !.builder.max_memory = v]
    /\ UNCHANGED <<execVars, cacheVars, lim, creating, px>>

\* SandboxConfigBuilder::max_fuel(fuel).
BuilderMaxFuel ==
    /\ \E v \in SettingValues : bld' = [bld EXCEPT !.builder.max_fuel = v]
    /\ UNCHANGED <<execVars, cacheVars, lim, creating, px>>

\* SandboxConfigBuilder::build() on the builder (or a clone of it).
BuilderBuild ==
    /\ bld' = [bld EXCEPT !.built = TRUE, !.config = build(bld.builder)]
    /\ UNCHANGED <<execVars, cacheVars, lim, creating, px>>

NextBuilder ==
    \/ BuilderNew
    \/ BuilderTimeout
    \/ BuilderMaxMemory
    \/ BuilderMaxFuel
    \/ BuilderBuild

\* Every operation of the cache, each call of contains, remove, clear and len
\* observed.  Entries are inserted under the files' own paths and asked for
\* through a symlink, a file's own path and a path that does not resolve.
OpPaths == {"link", "py2", "gone"}

NextCacheOps ==
    \/ \E i \in GcCalls :
         GcLookup(i, {"py", "py2", "bad"}) \/ GcCompile(i) \/ GcInsert(i)
    \/ RemoveOn(OpPaths, TRUE)
    \/ ClearOn(TRUE)
    \/ ContainsOn(OpPaths, TRUE)
    \/ CacheLenOn(TRUE)

\* get_or_compile over every path of the filesystem, failing ones included.
NextCacheAll ==
    \/ \E i \in GcCalls : GcLookup(i, Paths) \/ GcCompile(i) \/ GcInsert(i)
    \/ Remove(ModulePaths)
    \/ Clear
    \/ Contains(ModulePaths)
    \/ CacheLen

Init ==
    /\ InitExec /\ InitCache /\ InitLimiter /\ InitBuilder /\ InitCreating
    /\ InitParse

SpecParse == Init /\ [][NextParse]_vars

SpecCreate == Init /\ [][NextCreate]_vars

SpecBuilder == Init /\ [][NextBuilder]_vars

SpecCacheAll == Init /\ [][NextCacheAll]_vars

SpecCacheOps == Init /\ [][NextCacheOps]_vars

SpecLimiter == Init /\ [][NextLimiter]_vars

SpecCache == Init /\ [][NextCache]_vars

\* One execute call at a time, every configuration but stdin.
Next ==
    \/ \E s \in Sandboxes : NewSandbox(s, ConfigsNoStdin, BOOLEAN)
    \/ \E c \in {1} :
         \/ Execute(c, Programs, NoInputs)
         \/ TickerWake(c)
         \/ TickerIncrement(c)
         \/ TaskBegin(c)
         \/ Instantiate(c, GrowSizes, TableSizes)
         \/ GuestGrowMemory(c)
         \/ GuestGrowTable(c)
         \/ GuestBurn(c)
         \/ StartCallReturns(c)
         \/ TaskPanic(c)
         \/ ExecJoin(c)
         \/ SelectTimeout(c)
    \/ Advance(TRUE)

Spec == Init /\ [][Next]_vars

(* ------------------- other specifications of execute ------------------ *)
\* A module whose initial memory and table fit the limits.
SmallMemory == {1}
SmallTable == {MaxTableElements}

CallStep(c, mems, tables) ==
    \/ TickerWake(c)
    \/ TickerIncrement(c)
    \/ TaskBegin(c)
    \/ Instantiate(c, mems, tables)
    \/ StartCallReturns(c)
    \/ ExecJoin(c)
    \/ SelectTimeout(c)

\* One call whose guest never ends on its own; the runtime is fair to the
\* timers, to the blocking task and to the engine's safepoints.
LoopPrograms == {p \in Programs : p.kind = "loop"}

NextLoop ==
    \/ \E s \in Sandboxes : NewSandbox(s, ConfigsNoStdin, BOOLEAN)
    \/ Execute(1, LoopPrograms, NoInputs)
    \/ CallStep(1, GrowSizes, TableSizes)
    \/ GuestGrowMemory(1)
    \/ GuestGrowTable(1)
    \/ GuestBurn(1)
    \/ TaskPanic(1)
    \/ Advance(TRUE)

Scheduled ==
    \/ \E c \in Calls :
         CallStep(c, GrowSizes, TableSizes) \/ GuestBurn(c)
    \/ Advance(TRUE)

FairSpec == Init /\ [][NextLoop]_vars /\ WF_vars(Scheduled)

\* One call, with the guest's writes and the stdin arguments.
ConfigsIo ==
    {cfg \in Configs : cfg.timeout \in {1, 3} /\ cfg.epoch_tick_interval = 2
                        /\ cfg.max_fuel = None}
EndingPrograms == {p \in Programs : p.kind \in {"finish", "exit"} /\ p.dur = 1}

NextIo ==
    \/ \E s \in Sandboxes : NewSandbox(s, ConfigsIo, BOOLEAN)
    \/ Execute(1, EndingPrograms, Inputs)
    \/ CallStep(1, SmallMemory, SmallTable)
    \/ GuestWrite(1, {1, 2}, Bytes)
    \/ Advance(TRUE)

SpecIo == Init /\ [][NextIo]_vars

\* Two concurrent calls on one sandbox, hence on one engine and one module.
ConfigsConc ==
    {cfg \in Configs : cfg.stdin = None /\ cfg.max_fuel = None
                        /\ cfg.timeout \in {1, 2}
                        /\ cfg.epoch_tick_interval = 2}
FinishPrograms == {p \in Programs : p.kind = "finish" /\ p.dur = 1}

NextConc ==
    \/ \E s \in Sandboxes : NewSandbox(s, ConfigsConc, {TRUE})
    \/ \E c \in Calls :
         \/ Execute(c, FinishPrograms, NoInputs)
         \/ CallStep(c, SmallMemory, SmallTable)
         \/ GuestWrite(c, {1}, {65})
    \/ Advance(TRUE)

SpecConc == Init /\ [][NextConc]_vars

\* Two concurrent calls on one sandbox whose guests grow their memories.
ConfigsGrow == {cfg \in ConfigsConc : cfg.timeout = 1}

NextGrow ==
    \/ \E s \in Sandboxes : NewSandbox(s, ConfigsGrow, {TRUE})
    \/ \E c \in Calls :
         \/ Execute(c, FinishPrograms, NoInputs)
         \/ CallStep(c, SmallMemory, SmallTable)
         \/ GuestGrowMemory(c)
    \/ Advance(TRUE)

SpecGrow == Init /\ [][NextGrow]_vars

\* One call that its caller may drop while it waits; timers fire and the
\* blocking task takes its steps.
NextDrop ==
    \/ \E s \in Sandboxes : NewSandbox(s, ConfigsConc, BOOLEAN)
    \/ Execute(1, FinishPrograms \cup LoopPrograms, NoInputs)
    \/ CallStep(1, SmallMemory, SmallTable)
    \/ DropExecute(1)
    \/ Advance(TRUE)

ScheduledDrop == CallStep(1, SmallMemory, SmallTable) \/ Advance(TRUE)

FairDrop == Init /\ [][NextDrop]_vars /\ WF_vars(ScheduledDrop)

\* One call whose blocking task may be kept waiting for a thread of the
\* blocking pool while the clock runs.
ConfigsLate ==
    {cfg \in Configs : cfg.stdin = None /\ cfg.timeout = 1
                        /\ cfg.epoch_tick_interval = 2}

NextLate ==
    \/ \E s \in Sandboxes : NewSandbox(s, ConfigsLate, BOOLEAN)
    \/ Execute(1, Programs, NoInputs)
    \/ CallStep(1, SmallMemory, SmallTable)
    \/ GuestBurn(1)
    \/ TaskPanic(1)
    \/ Advance(FALSE)

SpecLate == Init /\ [][NextLate]_vars

\* The same with never-ending guests only; timers fire, threads of the
\* blocking pool become free and running tasks take their steps.
NextLateLoop ==
    \/ \E s \in Sandboxes : NewSandbox(s, ConfigsLate, BOOLEAN)
    \/ Execute(1, LoopPrograms, NoInputs)
    \/ CallStep(1, SmallMemory, SmallTable)
    \/ GuestBurn(1)
    \/ TaskPanic(1)
    \/ Advance(FALSE)

ScheduledLate ==
    \/ CallStep(1, SmallMemory, SmallTable)
    \/ GuestBurn(1)
    \/ Advance(FALSE)

FairLate == Init /\ [][NextLateLoop]_vars /\ WF_vars(ScheduledLate)

(* ------------------------------ claims --------------------------------- *)
Returned(c) == call[c].pc = "returned"
Result(c) == call[c].result
\* execute returned what the blocking task produced (the exec_handle branch).
Joined(c) == Returned(c) /\ Result(c).detail # "deadline"
Limiter(c) == task[c].store.limiter
\* start.call has returned in the blocking task of call c.
CallEnded(c) == guest[c].ended.returned

\* The guest of call c got to run, or its task has not begun; no panic.
GuestRan(c) ==
    /\ guest[c].started \/ task[c].pc = "spawned"
    /\ task[c].pc # "panicked"
FuelOff(c) == ~consume_fuel[Eng(c)] /\ Cfg(c).max_fuel = None
\* The guest, left alone, ends before the call's deadline.
EndsBeforeDeadline(c) ==
    /\ guest[c].started
    /\ guest[c].prog.kind # "loop"
    /\ guest[c].gstart + guest[c].prog.dur < call[c].start + Cfg(c).timeout

\* The engine's fuel accounting is on exactly when a budget is configured.
FuelAsConfigured(c) == consume_fuel[Eng(c)] = IsSome(Cfg(c).max_fuel)

C1_Pre(c) ==
    /\ guest[c].prog.kind = "loop"
    /\ GuestRan(c)
    /\ ~guest[c].denied
    /\ FuelOff(c)

C2_CompletesBeforeTimeout ==
    \A c \in Calls :
        (Returned(c) /\ guest[c].prog.kind = "finish" /\ EndsBeforeDeadline(c)
            /\ task[c].pc # "panicked" /\ ~guest[c].denied /\ FuelOff(c))
        => (Result(c).kind = "Ok" /\ Result(c).exit_code = 0)

\* C3: the stdout and stderr of a returned ExecutionResult are the bytes the
\* guest wrote to its standard output and standard error, decoded lossily.
C3_CapturedOutput ==
    \A c \in Calls :
        (Returned(c) /\ Result(c).kind = "Ok")
        => /\ Result(c).stdout = to_string_lossy(guest[c].stdout)
           /\ Result(c).stderr = to_string_lossy(guest[c].stderr)

\* C4: concurrent calls that share the engine and the module, each of which
\* would complete normally within its timeout, all succeed, each with the
\* output of its own guest.
C4_ConcurrentCalls ==
    \A c \in Calls :
        (Returned(c) /\ guest[c].prog.kind = "finish" /\ EndsBeforeDeadline(c)
            /\ FuelOff(c))
        => /\ Result(c).kind = "Ok"
           /\ Result(c).exit_code = 0
           /\ Result(c).stdout = to_string_lossy(guest[c].stdout)

\* C5: in every limiter state current <= peak <= max_memory, and the
\* peak_memory of every returned ExecutionResult is at most config.max_memory.
C5_PeakWithinLimit ==
    \A c \in Calls :
        /\ Limiter(c).current_memory <= Limiter(c).peak_memory
        /\ Limiter(c).peak_memory <= Limiter(c).max_memory
        /\ (Returned(c) /\ Result(c).kind = "Ok")
            => Result(c).peak_memory <= Cfg(c).max_memory

\* An execution that was refused a growth beyond the ceiling and was granted
\* one up to it returned a result reporting the ceiling.
C5_Witness ==
    \E c \in Calls :
        /\ Returned(c) /\ Result(c).kind = "Ok"
        /\ guest[c].mem_denied
        /\ Result(c).peak_memory = Cfg(c).max_memory

\* C6: a call that returns MemoryLimitExceeded has its own limiter's exceeded
\* flag set, a growth request of that execution having been denied.
C6_ExceededWhenReported ==
    \A c \in Calls :
        (Returned(c) /\ Result(c).kind = "MemoryLimitExceeded")
        => (Limiter(c).limit_exceeded /\ guest[c].denied)

\* MemoryLimitExceeded was returned from the entry-point call.
C6_Witness ==
    \E c \in Calls :
        /\ Returned(c) /\ Result(c).kind = "MemoryLimitExceeded"
        /\ CallEnded(c)

\* get_or_compile call i returned Ok(artifact).
GcOk(i) == gc[i].pc = "done" /\ gc[i].err = "none"
\* Calls i and j resolved to the same canonical path and both returned Ok.
SamePath(i, j) == i # j /\ GcOk(i) /\ GcOk(j) /\ gc[i].canon = gc[j].canon
\* No entry of their path was evicted between the start of either call and
\* the return of either.
NoEviction(i, j) ==
    /\ gc[i].startEv = gc[j].endEv
    /\ gc[j].startEv = gc[i].endEv
\* Call i missed in the lookup and compiled its own artifact.
Missed(i) == gc[i].module # NoArtifact
\* Both calls missed in the lookup, neither having inserted yet: they miss
\* at the same time.
MissedTogether(i, j) ==
    /\ SamePath(i, j)
    /\ Missed(i) /\ Missed(j)
    /\ gc[i].startIns = gc[j].startIns
    /\ gc[i].startEv = gc[j].startEv
\* Exactly one of the racers' artifacts was inserted, both return it, and the
\* loser's compilation is in no entry of the map.
OneWinner(i, j) ==
    /\ gc[i].ret = gc[j].ret
    /\ \E w \in GcCalls :
         /\ Missed(w) /\ gc[w].canon = gc[i].canon
         /\ gc[i].ret = gc[w].module
    /\ gc[i].endIns \in {gc[i].startIns, gc[i].startIns + 1}
    /\ gc[i].endIns = gc[i].startIns + 1 \/ gc[j].endIns = gc[j].startIns + 1
    /\ \A k \in CanonPaths :
         (gc[i].ret # gc[i].module) => cache[k] # gc[i].module

\* C7 (as stated): two get_or_compile calls on one cache whose paths have the
\* same canonical path return the identical artifact, whatever other calls,
\* remove and clear included, come between them.
C7_Original ==
    \A i, j \in GcCalls : SamePath(i, j) => gc[i].ret = gc[j].ret

\* C7 (amended): two get_or_compile calls on one cache whose paths have the
\* same canonical path return the identical artifact, provided no remove or
\* clear evicts that path's entry between the start of the earlier call and
\* the return of the later one.
C7_SameArtifact ==
    \A i, j \in GcCalls :
        (SamePath(i, j) /\ NoEviction(i, j)) => gc[i].ret = gc[j].ret

\* One call compiled and inserted the artifact, a later one, reaching the
\* file through the symlink, hit the entry and returned the same artifact.
C7_Witness ==
    \E i, j \in GcCalls :
        /\ SamePath(i, j) /\ NoEviction(i, j)
        /\ Missed(i) /\ ~Missed(j)
        /\ gc[i].path # gc[j].path
        /\ gc[i].endIns = gc[j].startIns
        /\ gc[i].ret = gc[j].ret /\ gc[j].ret # NoArtifact

\* C8 (as stated): of the callers that miss on one canonical path at the same
\* time, exactly one inserts its artifact, all of them return it, and a
\* loser's compilation never enters the map.
C8_Original ==
    \A i, j \in GcCalls : MissedTogether(i, j) => OneWinner(i, j)

\* C8 (amended): of the callers that miss on one canonical path at the same
\* time, with no remove or clear evicting that path's entry before the last
\* of them returns, exactly one inserts its artifact, all of them return it,
\* and a loser's compilation never enters the map.
C8_RacingMisses ==
    \A i, j \in GcCalls :
        (MissedTogether(i, j) /\ NoEviction(i, j)) => OneWinner(i, j)

\* Two callers missed together and compiled two artifacts; the second to
\* reach the write lock returned the first one's.
C8_Witness ==
    \E i, j \in GcCalls :
        /\ MissedTogether(i, j) /\ NoEviction(i, j)
        /\ gc[i].module # gc[j].module
        /\ gc[i].ret = gc[i].module
        /\ gc[j].ret = gc[i].module
        /\ cache[gc[i].canon] = gc[i].module

\* C9: a guest that ends by a clean exit with code n, the limiter not
\* exceeded, makes execute return Ok with exit_code n, never a SandboxError.
C9_CleanExitIsOk ==
    \A c \in Calls :
        (Joined(c) /\ CallEnded(c) /\ ~guest[c].ended.ok
            /\ guest[c].ended.error.exit # None
            /\ ~Limiter(c).limit_exceeded)
        => /\ Result(c).kind = "Ok"
           /\ Result(c).exit_code = guest[c].ended.error.exit

\* C10: a failed entry-point call is classified by first match: exceeded,
\* interrupt trap, fuel trap, clean exit, anything else; a fuel trap or a
\* clean exit whose text mentions an interrupt is classified by its kind.
C10_ByKind(c) ==
    LET e == guest[c].ended.error
        r == task[c].res
    IN  IF Limiter(c).limit_exceeded THEN r.kind = "MemoryLimitExceeded"
        ELSE IF e.trap = "Interrupt" THEN r.kind = "Timeout"
        ELSE IF e.trap = "OutOfFuel"
             THEN r.kind = "ExecutionFailed" /\ r.detail = "out_of_fuel"
        ELSE IF e.exit # None THEN r.kind = "Ok" /\ r.exit_code = e.exit
        ELSE IF e.trap = "Other"
             THEN r.kind = "ExecutionFailed" /\ r.detail = "raw"
        ELSE r.kind \in {"Timeout", "ExecutionFailed"}

C10_FirstMatchByKind ==
    \A c \in Calls :
        (CallEnded(c) /\ ~guest[c].ended.ok) => C10_ByKind(c)

\* C11: when the guest exhausts a configured instruction budget, execute
\* returns an error for which SandboxError::is_out_of_fuel() is true.
C11_OutOfFuelPredicate ==
    \A c \in Calls :
        (Joined(c) /\ CallEnded(c) /\ IsSome(Cfg(c).max_fuel)
            /\ guest[c].ended.error.trap = "OutOfFuel"
            /\ ~Limiter(c).limit_exceeded)
        => SandboxError_is_out_of_fuel(Result(c))

\* The configured timeout of call c has not elapsed.
BeforeDeadline(c) == now < call[c].start + Cfg(c).timeout
\* ticker_handle.abort() has been called on the ticker of call c.
TickerCancelled(c) == ticker[c].st \in {"aborted", "abort_pending"}

\* C12: if the blocking task panics, execute returns the error value
\* ExecutionFailed("task panicked: ...") from the join point, with the ticker
\* cancelled; a panic before the deadline is always reported this way.
C12_PanicIsReported ==
    \A c \in Calls :
        (Returned(c) /\ task[c].pc = "panicked")
        => /\ BeforeDeadline(c) => Joined(c)
           /\ Joined(c) => /\ Result(c).kind = "ExecutionFailed"
                           /\ Result(c).detail = "task panicked"
                           /\ TickerCancelled(c)

\* A task panicked before the deadline and execute returned its report.
C12_Witness ==
    \E c \in Calls :
        /\ Returned(c) /\ task[c].pc = "panicked" /\ BeforeDeadline(c)
        /\ Result(c).kind = "ExecutionFailed"
        /\ Result(c).detail = "task panicked"

\* The step of call c is the sleep(timeout) arm of its select.
DeadlineStep(c) ==
    /\ call[c].pc = "select"
    /\ call'[c].pc = "returned"
    /\ call'[c].result.detail = "deadline"

\* C13: when the timeout elapses first, execute cancels the ticker, increments
\* the engine's epoch once more and returns Timeout(configured duration) in
\* that very step, leaving the blocking task where it is; what the abandoned
\* task produces later never replaces the result returned.
C13_TimeoutArm ==
    /\ [](\A c \in Calls :
            (Returned(c) /\ ~Joined(c))
            => /\ Result(c).kind = "Timeout"
               /\ Result(c).duration = Cfg(c).timeout
               /\ ~BeforeDeadline(c)
               /\ TickerCancelled(c))
    /\ [][\A c \in Calls :
            /\ DeadlineStep(c)
               => /\ epoch'[Eng(c)] = epoch[Eng(c)] + 1
                  /\ task' = task
                  /\ TickerCancelled(c)'
            /\ Returned(c) => call'[c] = call[c]]_vars

\* execute returned the deadline's Timeout and the abandoned task later
\* completed with a successful result of its own.
C13_Witness ==
    \E c \in Calls :
        /\ Returned(c) /\ ~Joined(c)
        /\ task[c].pc = "done" /\ task[c].res.kind = "Ok"
        /\ Result(c).kind = "Timeout"

\* The blocking task of call c has finished with a result of its own and the
\* configured timeout has not elapsed.
FinishedInTime(c) == task[c].pc = "done" /\ BeforeDeadline(c)

TaskAlive(c) == task[c].pc \in {"spawned", "setup", "running"}

\* C15: after execute has reported the deadline's Timeout, the abandoned
\* blocking task eventually stops running, also when it had not yet created
\* its Store and set its epoch deadline when the timeout fired.
C15_AbandonedTaskStops ==
    \A c \in Calls : (Returned(c) /\ ~Joined(c)) ~> ~TaskAlive(c)

\* C16: memory_growing(desired) denies a request above max_memory, sets
\* exceeded and leaves current and peak alone; any other request, one equal
\* to max_memory included, it allows, setting current to desired and peak to
\* the larger of peak and desired and leaving exceeded alone.
C16_MemoryGrowing ==
    lim.op = "memory"
    => IF lim.desired > lim.pre.max_memory
       THEN /\ ~lim.allowed
            /\ lim.l = [lim.pre EXCEPT !.limit_exceeded = TRUE]
       ELSE /\ lim.allowed
            /\ lim.l.current_memory = lim.desired
            /\ lim.l.peak_memory =
                  (IF lim.pre.peak_memory > lim.desired
                   THEN lim.pre.peak_memory ELSE lim.desired)
            /\ lim.l.limit_exceeded = lim.pre.limit_exceeded
            /\ lim.l.max_memory = lim.pre.max_memory
            /\ lim.l.max_table_elements = lim.pre.max_table_elements

\* A request equal to a positive ceiling was granted after an earlier denial,
\* the flag staying set.
C16_Witness ==
    /\ lim.op = "memory"
    /\ lim.desired = lim.pre.max_memory /\ lim.desired > 0
    /\ lim.pre.limit_exceeded
    /\ lim.allowed /\ lim.l.current_memory = lim.desired

\* C17: once a limiter's exceeded flag is set, no later memory or table
\* growth request, allowed or denied, clears it.
C17_ExceededIsSticky ==
    (lim.op \in {"memory", "table"} /\ lim.pre.limit_exceeded)
    => lim.l.limit_exceeded

\* A table growth within the ceiling was allowed on a limiter whose flag had
\* been set by a memory request, and the flag is still set.
C17_Witness ==
    /\ lim.op = "table" /\ lim.allowed
    /\ lim.pre.limit_exceeded /\ lim.pre.current_memory > 0
    /\ lim.l.limit_exceeded

\* What the guest of call c can read from its stdin (None: nothing, the WASI
\* context was given no stdin stream).
GuestStdin(c) == task[c].store.stdin

\* C18: the guest's stdin is config.stdin whenever it is set, also when
\* execute's input argument is given; otherwise the input argument;
\* otherwise empty.
C18_StdinPrecedence ==
    \A c \in Calls :
        guest[c].started
        => GuestStdin(c) = (IF Cfg(c).stdin # None THEN Cfg(c).stdin
                            ELSE IF call[c].input # None THEN call[c].input
                            ELSE None)

\* A guest ran with both config.stdin and the input argument given and its
\* stdin held the configured payload.
C18_Witness ==
    \E c \in Calls :
        /\ guest[c].started /\ CallEnded(c)
        /\ Cfg(c).stdin # None /\ call[c].input # None
        /\ Cfg(c).stdin # call[c].input
        /\ GuestStdin(c) = Cfg(c).stdin

\* get_or_compile call i returned an error.
GcFailed(i) == gc[i].pc = "done" /\ gc[i].err # "none"
\* The present step belongs to call i.
GcStep(i) == gc'[i] # gc[i]

\* C19: get_or_compile fails with InterpreterNotFound when the path's entry
\* is absent, with Io on any other filesystem error and with ModuleLoad when
\* the bytes are no valid module; no step of a failing call changes the
\* entries of the cache.
C19_FailuresLeaveCache ==
    /\ [](\A i \in GcCalls :
            gc[i].pc = "done"
            => /\ FsEntry(gc[i].path) = "absent"
                  => gc[i].err = "InterpreterNotFound"
               /\ FsEntry(gc[i].path) \in {"denied", "directory"}
                  => gc[i].err = "Io"
               /\ (FsEntry(gc[i].path) = "file" /\ ~ValidModule(gc[i].path))
                  => gc[i].err = "ModuleLoad"
               /\ gc[i].err # "none"
                  => gc[i].module = NoArtifact /\ gc[i].ret = NoArtifact)
    /\ [][\A i \in GcCalls :
            (GcStep(i) /\ (gc'[i].pc = "compile" \/ GcFailed(i)'))
            => cache' = cache]_vars

\* One call inserted an artifact, another failed with ModuleLoad, and the
\* entry is still the one inserted.
C19_Witness ==
    \E i, j \in GcCalls :
        /\ GcFailed(i) /\ gc[i].err = "ModuleLoad"
        /\ GcOk(j) /\ Missed(j)
        /\ cache[gc[j].canon] = gc[j].module
        /\ hist.ev[gc[j].canon] = 0

\* The present step is the start of call i on a path whose canonical path is
\* in the cache.
LookupOnEntry(i) ==
    /\ gc[i].pc = "idle" /\ GcStep(i)
    /\ canonicalize(gc'[i].path).ok
    /\ cache[gc'[i].canon] # NoArtifact

\* C20: when the canonical path is in the cache at lookup time,
\* get_or_compile returns the stored artifact in that step, without reading
\* or compiling the file and without changing the cache.
C20_HitReturnsStored ==
    /\ [][\A i \in GcCalls :
            LookupOnEntry(i)
            => /\ gc'[i].pc = "done" /\ gc'[i].err = "none"
               /\ gc'[i].ret = cache[gc'[i].canon]
               /\ gc'[i].module = NoArtifact
               /\ compiled' = compiled
               /\ cache' = cache]_vars
    /\ [](\A i \in GcCalls :
            (GcOk(i) /\ ~Missed(i))
            => (gc[i].ret # NoArtifact /\ gc[i].startIns > 0))

\* A call through the symlink hit the entry of the only artifact compiled.
C20_Witness ==
    \E i \in GcCalls :
        /\ GcOk(i) /\ ~Missed(i)
        /\ gc[i].path = "link"
        /\ compiled = 1
        /\ gc[i].ret = cache["py"] /\ gc[i].ret # NoArtifact

\* linker.instantiate of call c returned an error.
InstantiateFailed(c) == guest[c].inst = "failed"

\* C21: when linker.instantiate fails, the blocking task's result is
\* MemoryLimitExceeded if the limiter's exceeded flag is set at that point and
\* ModuleLoad otherwise, and that is what execute returns when it returns the
\* task's result.
C21_InstantiationFailure ==
    \A c \in Calls :
        InstantiateFailed(c) =>
            /\ task[c].res.kind =
                   IF Limiter(c).limit_exceeded THEN "MemoryLimitExceeded"
                   ELSE "ModuleLoad"
            /\ Joined(c) => Result(c) = task[c].res

\* execute returned the task's result after an instantiation that failed
\* because the limiter denied the module's initial memory or table.
C21_Witness ==
    \E c \in Calls :
        /\ InstantiateFailed(c) /\ Joined(c) /\ Limiter(c).limit_exceeded
        /\ guest[c].denied
        /\ Result(c).kind = "MemoryLimitExceeded"
\* C22: every SandboxConfig the builder produces has max_memory > 0 and
\* timeout > 0, whatever setters were called with whatever arguments.
C22_BuiltConfigPositive ==
    bld.built => (bld.config.max_memory > 0 /\ bld.config.timeout > 0)
\* PythonSandbox::new_with_options returned Ok for construction i.
Created(i) == creating[i].pc = "checked" /\ GcOk(i)

\* PythonSandbox::is_using_cached_module of the sandbox of construction i;
\* metadata.used_cached_module of its results is a copy of the same field.
is_using_cached_module(i) == creating[i].was_in_cache

\* Construction i took its module handle from an entry already in the cache.
TakenFromCache(i) == gc[i].ret # gc[i].module
\* Construction i compiled the module.
CompiledHere(i) == gc[i].module # NoArtifact

\* C23: is_using_cached_module of a constructed sandbox is true exactly when
\* its module handle was taken from an entry already in the cache, and false
\* exactly when the construction compiled the module, whatever other tasks do
\* on the same cache meanwhile.
C23_CachedFlag ==
    \A i \in GcCalls :
        Created(i) =>
            /\ is_using_cached_module(i) <=> TakenFromCache(i)
            /\ ~is_using_cached_module(i) <=> CompiledHere(i)
\* parse_python_exception was called on px.text and px.res is what came of it.
Parsed == px.res.kind # "unparsed"
Matched == px.res.kind = "Some"
TextLines == str_lines(px.text)
\* The lines the scan records as exception lines, and as traceback starts.
CandidateLines == {i \in 1..Len(TextLines) : IsCandidate(TextLines[i])}
MarkerLines ==
    {i \in 1..Len(TextLines) : starts_with(TextLines[i], TracebackMarker)}
\* The candidate line with the greatest index.
WinningLine == TextLines[SetMax(CandidateLines)]

\* C24: parse_python_exception returns no match for empty or whitespace-only
\* text and for text without a candidate exception line, and returns a
\* PythonException for every other text.
C24_MatchOrNone ==
    Parsed =>
        IF trim(px.text) = <<>> \/ CandidateLines = {}
        THEN px.res.kind = "None"
        ELSE px.res.kind = "Some"

\* C25: when the text has several candidate exception lines, the reported
\* exception type and message come from the candidate line with the greatest
\* line index.
C25_LastCandidateWins ==
    Matched =>
        /\ px.res.exception_type = SplitException(WinningLine).exception_type
        /\ px.res.message = SplitException(WinningLine).message

\* A match on a text with two candidate lines of different types.
C25_Witness ==
    /\ Matched
    /\ \E i, j \in CandidateLines :
         /\ i < j
         /\ SplitException(TextLines[i]).exception_type
              # SplitException(TextLines[j]).exception_type

Colons(line) == {k \in 1..Len(line) : line[k] = ":"}

\* C26: the exception type is the trimmed text before the first colon of the
\* winning line and the message the trimmed text after it, later colons
\* included; without a colon the type is the whole trimmed line and the
\* message is empty.
C26_SplitAtFirstColon ==
    Matched =>
        LET line == WinningLine
        IN  IF Colons(line) = {}
            THEN /\ px.res.exception_type = trim(line)
                 /\ px.res.message = <<>>
            ELSE LET c == SetMin(Colons(line))
                 IN  /\ px.res.exception_type = trim(SubSeq(line, 1, c - 1))
                     /\ px.res.message = trim(SubSeq(line, c + 1, Len(line)))

\* A match whose winning line has two colons: the second stays in the message.
C26_Witness ==
    /\ Matched
    /\ Cardinality(Colons(WinningLine)) = 2
    /\ Colons(px.res.message) # {}
    /\ Colons(px.res.exception_type) = {}

\* C27: in a match the traceback is present exactly when some line begins
\* with the traceback marker; it is then the lines from the recorded marker
\* line through the winning exception line, both included, joined by newlines.
C27_TracebackRange ==
    Matched =>
        /\ px.res.traceback.some <=> MarkerLines # {}
        /\ MarkerLines # {} =>
              LET m == SetMax(MarkerLines)
                  w == SetMax(CandidateLines)
              IN  /\ m <= w
                  /\ px.res.traceback.text = join(SubSeq(TextLines, m, w))

\* Some occurrence of the word in the line is followed by the end of the
\* line, a colon or a space.
SomeOccurrenceOk(line, word) ==
    \E i \in 1..(Len(line) - Len(word) + 1) :
        /\ SubSeq(line, i, i + Len(word) - 1) = word
        /\ after_ok(line, i + Len(word))

\* The candidate exception line as C28 describes it.
C28_Described(line) ==
    /\ line # <<>>
    /\ line[1] \notin {" ", "\t"}
    /\ ~starts_with(line, TracebackMarker)
    /\ is_ascii_uppercase(line[1])
    /\ \/ \E word \in exception_suffixes : SomeOccurrenceOk(line, word)
       \/ \E exc \in standalone_exceptions :
            starts_with(line, exc) /\ after_ok(line, Len(exc) + 1)

\* C28: a line is a candidate exception line exactly when it is non-empty,
\* does not start with a space or a tab, is not the traceback marker line,
\* starts with an ASCII uppercase letter, and has an occurrence of Error,
\* Exception or Warning followed by end-of-line, a colon or a space, or starts
\* with a standalone exception name followed by one of these.
C28_CandidateLine ==
    Parsed =>
        \A i \in 1..Len(TextLines) :
            IsCandidate(TextLines[i]) <=> C28_Described(TextLines[i])
\* C29: table_growing(desired) denies the growth and sets exceeded when
\* desired is above the fixed table-element ceiling, otherwise allows it and
\* leaves exceeded as it was; either way current and peak memory (and the
\* ceilings) are as before the call.
C29_TableGrowingFrame ==
    lim.op = "table" =>
        /\ IF lim.desired > MaxTableElements
           THEN ~lim.allowed /\ lim.l.limit_exceeded
           ELSE lim.allowed /\ lim.l.limit_exceeded = lim.pre.limit_exceeded
        /\ lim.l.current_memory = lim.pre.current_memory
        /\ lim.l.peak_memory = lim.pre.peak_memory
        /\ lim.l.max_memory = lim.pre.max_memory
        /\ lim.l.max_table_elements = MaxTableElements

\* A table growth was granted on a limiter whose flag was already set and
\* whose current memory lies below its peak.
C29_Witness ==
    /\ lim.op = "table"
    /\ lim.allowed
    /\ lim.pre.limit_exceeded
    /\ 0 < lim.pre.current_memory
    /\ lim.pre.current_memory < lim.pre.peak_memory
\* C30: metadata.peak_memory of every returned ExecutionResult equals the
\* limiter's peak reading, the largest memory size granted during that
\* execution, and not the size of the most recently granted growth.
C30_PeakMemoryReported ==
    \A c \in Calls :
        (Returned(c) /\ Result(c).kind = "Ok")
        => Result(c).peak_memory = Limiter(c).peak_memory
\* C31: metadata.fuel_consumed of a returned ExecutionResult is present
\* exactly when config.max_fuel is set, and then equals max_fuel minus the
\* remaining budget, saturating at 0, hence is at most max_fuel.
C31_FuelConsumed ==
    \A c \in Calls :
        (Returned(c) /\ Result(c).kind = "Ok") =>
            LET max_fuel == Cfg(c).max_fuel
                remaining == IF task[c].store.fuel_enabled
                             THEN task[c].store.fuel ELSE 0
            IN  /\ IsSome(Result(c).fuel_consumed) <=> IsSome(max_fuel)
                /\ IsSome(max_fuel) =>
                      /\ Result(c).fuel_consumed =
                            IF max_fuel >= remaining THEN max_fuel - remaining
                            ELSE 0
                      /\ Result(c).fuel_consumed <= max_fuel

\* A result that reports fuel consumed by the guest.
C31_Witness ==
    \E c \in Calls :
        /\ Returned(c) /\ Result(c).kind = "Ok"
        /\ IsSome(Cfg(c).max_fuel)
        /\ guest[c].burned > 0
        /\ Result(c).fuel_consumed = guest[c].burned
\* The ticker of call c increments the engine's epoch in this step.
TickerIncrements(c) ==
    /\ ticker[c].st \in {"woken", "abort_pending"}
    /\ ticker'[c].st \in {"sleeping", "aborted"}
    /\ epoch'[Eng(c)] = epoch[Eng(c)] + 1

StoreCreated(c) == task[c].pc = "spawned" /\ task'[c].pc # "spawned"
\* The engine asks the limiter of call c about a growth in this step.
GrowthRequest(c) ==
    /\ task[c].pc \in {"setup", "running"}
    /\ task'[c].store.limiter # task[c].store.limiter

\* C33: every execution starts with its own limiter holding current = 0,
\* peak = 0, exceeded = false and the config's ceiling, and no growth request
\* of one execution changes the limiter of another execution, concurrent
\* executions on the same sandbox included.
C33_OwnLimiter ==
    [][\A c \in Calls :
         /\ StoreCreated(c) =>
               /\ Limiter(c)'.current_memory = 0
               /\ Limiter(c)'.peak_memory = 0
               /\ ~Limiter(c)'.limit_exceeded
               /\ Limiter(c)'.max_memory = Cfg(c).max_memory
         /\ \A d \in Calls \ {c} :
               (GrowthRequest(d) \/ StoreCreated(d))
               => Limiter(c)' = Limiter(c)]_vars

\* Two executions on the same sandbox run at once, one with its exceeded flag
\* set and the other with memory granted and its flag clear.
C33_Witness ==
    \E c, d \in Calls :
        /\ c # d /\ call[c].sb = call[d].sb
        /\ Running(c) /\ Running(d)
        /\ Limiter(c).limit_exceeded
        /\ ~Limiter(d).limit_exceeded /\ Limiter(d).current_memory > 0
\* The canonical paths that have an entry in the map.
Cached == {k \in CanonPaths : cache[k] # NoArtifact}
\* Path p resolves to a canonical path of the set.
ResolvesInto(p, set) == canonicalize(p).ok /\ canonicalize(p).canon \in set

\* C34: a ModuleCache behaves as a map keyed by canonical path: it starts
\* empty, its entries are exactly the canonical paths inserted by a
\* get_or_compile and not since removed or cleared, len returns their number,
\* contains(p) is true exactly for them, remove(p) returns true exactly when p
\* had an entry and leaves it absent, and clear leaves the cache empty.
C34_MapRefinement ==
    /\ Cached = hist.live
    /\ hist.call.op = "len" => hist.call.n = Cardinality(hist.call.before)
    /\ hist.call.op = "contains"
         => hist.call.ret = ResolvesInto(hist.call.path, hist.call.before)
    /\ hist.call.op = "remove"
         => hist.call.ret = ResolvesInto(hist.call.path, hist.call.before)

\* remove returned true for a path given through a symlink while another
\* entry stayed in the cache.
C34_Witness ==
    /\ hist.call.op = "remove" /\ hist.call.ret
    /\ hist.call.path = "link"
    /\ hist.call.before = {"py", "py2"}
    /\ Cached = {"py2"}
\* The engine that artifact a was compiled with: the engine passed by the
\* get_or_compile call whose Module::new produced it.
CompiledWith(a) ==
    creating[CHOOSE j \in GcCalls : gc[j].module = a].engine

\* C35: the module of every constructed sandbox was compiled by the engine
\* the sandbox executes with, also when two sandboxes are built without a
\* shared engine on the same interpreter path.
C35_ModuleOfOwnEngine ==
    \A i \in GcCalls :
        Created(i) => CompiledWith(gc[i].ret) = creating[i].engine
\* start.call of call c returned the epoch-interruption trap.
Interrupted(c) ==
    guest[c].ended.returned /\ guest[c].ended.error.trap = "Interrupt"

\* C36: an increment of the interrupt counter made for one execution, by its
\* ticker or by its timeout's forced increment, never traps another
\* execution that shares the engine: an execution that is interrupted was
\* taken to its deadline by an increment of its own.
C36_OwnIncrementOnly ==
    \A c \in Calls : Interrupted(c) => guest[c].tripped_by = c
\* C37: an execution in which the limiter denied a growth request never
\* returns a successful result: whether the guest then traps, exits with a
\* code or completes normally, execute returns MemoryLimitExceeded.
C37_DeniedGrowthNeverOk ==
    \A c \in Calls :
        (Returned(c) /\ task[c].pc = "done" /\ Limiter(c).limit_exceeded)
        => /\ Result(c).kind # "Ok"
           /\ Joined(c) => Result(c).kind = "MemoryLimitExceeded"
\* C38: parse_python_exception returns a value, no match or a
\* PythonException, for every text and never panics, also when a traceback
\* marker line comes after the last candidate exception line.
C38_NeverPanics ==
    Parsed => px.res.kind \in {"None", "Some"}
\* The caller dropped call c before it returned.
Dropped(c) == call[c].pc = "dropped"
\* The ticker task of call c has been cancelled and has ended.
TickerStopped(c) == ticker[c].st = "aborted"

\* C39: if the caller drops an execute call before it returns, that call's
\* ticker eventually stops incrementing the interrupt counter: no ticker
\* outlives its execute call indefinitely.
C39_DroppedTickerStops ==
    \A c \in Calls : Dropped(c) ~> TickerStopped(c)
\* C40: for every constructed sandbox the engine's instruction-budget
\* accounting is enabled exactly when config.max_fuel is set, whether the
\* sandbox created the engine or was given a SharedEngine (new or with_fuel).
C40_FuelAccountingFollowsConfig ==
    \A s \in Sandboxes :
        sandbox[s].built
        => (consume_fuel[sandbox[s].engine] <=> IsSome(sandbox[s].config.max_fuel))
====
